---- MODULE Spec2Model ----
(***************************************************************************)
(* Model of src/api_trt/modules/face_model.py: the Detector wrapper and    *)
(* the FaceAnalysis pipeline (sort_boxes, reproject_points, process_faces, *)
(* get).  One FaceAnalysis instance is shared by the calls of get; every   *)
(* call of get is a coroutine of a single-threaded asyncio event loop.     *)
(*                                                                         *)
(* Numbers.  Pixel coordinates are integers; a scale factor is a rational  *)
(* <<n, d>> in lowest terms.  The inputs are chosen so that every          *)
(* coordinate divides exactly, hence dets / scale is computed exactly.     *)
(* Optional values (Python None) are sequences of length at most one.      *)
(***************************************************************************)
EXTENDS Integers, Sequences, FiniteSets, TLC

\* ------------------------------------------------------------------ bounds
MaxDet == 3
MaxBatch == 2
MaxLimit == 2
NumRuns == 2

\* ------------------------------------------------------------ Python None
None == <<>>
Some(v) == <<v>>
IsNone(o) == o = <<>>
Val(o) == o[1]

\* ----------------------------------------------------- sequence utilities
Range(s) == {s[i] : i \in DOMAIN s}
Reverse(s) == [i \in 1..Len(s) |-> s[Len(s) + 1 - i]]
Take(s, n) == SubSeq(s, 1, IF n < Len(s) THEN n ELSE Len(s))
\* numpy fancy indexing a[bindex]
Index(a, bindex) == [j \in 1..Len(bindex) |-> a[bindex[j]]]
Injective(s) == \A i, j \in DOMAIN s : s[i] = s[j] => i = j
SeqsUpTo(S, n) == UNION {[1..k -> S] : k \in 0..n}

\* ------------------------------------------- the external detector's rows
\* A row of retina.detect: box (x1,y1,x2,y2), score (in tenths), landmark
\* (x,y) and the mask probability column (in tenths).
DetA == [box |-> <<0, 0, 12, 12>>, score |-> 9, landmark |-> <<6, 6>>, mask |-> 1]
DetB == [box |-> <<6, 6, 18, 18>>, score |-> 8, landmark |-> <<12, 12>>, mask |-> 7]
DetC == [box |-> <<0, 0, 24, 12>>, score |-> 7, landmark |-> <<12, 6>>, mask |-> 3]
DetD == [box |-> <<0, 6, 6, 12>>, score |-> 6, landmark |-> <<0, 6>>, mask |-> 5]
Detections == {DetA, DetB, DetC, DetD}
\* What the detector finds in an image: distinct rows (NMS removes duplicates).
Batches == {b \in SeqsUpTo(Detections, MaxDet) : Injective(b)}
\* scale_factor of ImageData: resized dimension / original dimension, > 0.
Scales == {<<1, 1>>, <<3, 2>>}
Backends == {"trt", "triton", "mxnet"}

\* ------------------------------------------------------ Detector.detect
\* Lines 65-76.  rows is what retina.detect returned for the image at the
\* threshold; masks is the detector attribute retina.masks; raises says
\* whether the body of the try statement (lines 71-72) raised in this call.
DetectorDetect(rows, masks, raises) ==
    [boxes |-> [i \in 1..Len(rows) |-> rows[i].box],
     probs |-> [i \in 1..Len(rows) |-> rows[i].score],
     landmarks |-> [i \in 1..Len(rows) |-> rows[i].landmark],
     mask_probs |-> IF ~raises /\ masks = TRUE
                    THEN Some([i \in 1..Len(rows) |-> rows[i].mask])
                    ELSE None]

\* ------------------------------------------------- FaceAnalysis.__init__
FaceAnalysisInit_noclamp(backend_name, max_rec_batch_size) ==
    [backend_name |-> backend_name, max_rec_batch_size |-> max_rec_batch_size]

\* Lines 96-102: the batch size kept by the instance.
FaceAnalysisInit(backend_name, max_rec_batch_size) ==
    [backend_name |-> backend_name,
     max_rec_batch_size |->
        IF backend_name \notin {"trt", "triton"} /\ max_rec_batch_size # 1
        THEN 1
        ELSE max_rec_batch_size]

\* ------------------------------------------------ FaceAnalysis.sort_boxes
\* Line 147.
Area(box) == (box[3] - box[1]) * (box[4] - box[2])

Perms(n) == {p \in [1..n -> 1..n] : Injective(p)}

\* np.argsort(values) with the default kind ("quicksort", not stable): an
\* index permutation that puts the values in ascending order; the order of
\* equal values is not specified, so every such permutation is an outcome.
ArgSorts(values) ==
    {p \in Perms(Len(values)) :
        \A i \in 1..(Len(values) - 1) : values[p[i]] <= values[p[i + 1]]}

Sorted(boxes, probs, landmarks, mask_probs) ==
    [raised |-> "", boxes |-> boxes, probs |-> probs,
     landmarks |-> landmarks, mask_probs |-> mask_probs]

SortBoxes_ascending(boxes, probs, landmarks, mask_probs, max_num, perm) ==
    IF max_num > 0 /\ Len(boxes) > max_num
    THEN LET bindex == Take(perm, max_num)
         IN  IF ~IsNone(mask_probs)
             THEN [Sorted(boxes, probs, landmarks, mask_probs)
                      EXCEPT !.raised = "IndexError"]
             ELSE Sorted(Index(boxes, bindex), Index(probs, bindex),
                         Index(landmarks, bindex), mask_probs)
    ELSE Sorted(boxes, probs, landmarks, mask_probs)

SortBoxes_offbyone(boxes, probs, landmarks, mask_probs, max_num, perm) ==
    IF max_num > 0 /\ Len(boxes) > max_num
    THEN LET bindex == SubSeq(Reverse(perm), 2, max_num + 1)
         IN  IF ~IsNone(mask_probs)
             THEN [Sorted(boxes, probs, landmarks, mask_probs)
                      EXCEPT !.raised = "IndexError"]
             ELSE Sorted(Index(boxes, bindex), Index(probs, bindex),
                         Index(landmarks, bindex), mask_probs)
    ELSE Sorted(boxes, probs, landmarks, mask_probs)

\* Lines 144-168.  perm is the outcome of np.argsort(values) (line 158); the
\* centre offsets of lines 148-155 are computed and never used.  mask_probs
\* is the one-dimensional column bboxes[:, 5] (line 72), so the two-index
\* subscript mask_probs[bindex, :] of line 164 raises IndexError; the
\* caller's arrays are then left as they were (line 276 never assigns).
SortBoxes(boxes, probs, landmarks, mask_probs, max_num, perm) ==
    IF max_num > 0 /\ Len(boxes) > max_num
    THEN LET bindex == Take(Reverse(perm), max_num)
         IN  IF ~IsNone(mask_probs)
             THEN [Sorted(boxes, probs, landmarks, mask_probs)
                      EXCEPT !.raised = "IndexError"]
             ELSE Sorted(Index(boxes, bindex), Index(probs, bindex),
                         Index(landmarks, bindex), mask_probs)
    ELSE Sorted(boxes, probs, landmarks, mask_probs)

\* ------------------------------------------ FaceAnalysis.reproject_points
\* x / scale for the rational scale <<n, d>>: x * d / n (exact on the inputs).
TrueDiv(x, scale) == (x * scale[2]) \div scale[1]

ReprojectPoints_multiply(dets, scale) ==
    [arg |-> dets,
     ret |-> IF scale # <<1, 1>>
             THEN [k \in DOMAIN dets |-> (dets[k] * scale[1]) \div scale[2]]
             ELSE dets]

\* Lines 171-175.  ret is the value returned; arg is the caller's array after
\* the call (dets / scale builds a new array, the argument is left alone).
ReprojectPoints(dets, scale) ==
    [arg |-> dets,
     ret |-> IF scale # <<1, 1>>
             THEN [k \in DOMAIN dets |-> TrueDiv(dets[k], scale)]
             ELSE dets]

\* ------------------------------------------------ external collaborators
\* to_chunks(iterable, size) of modules.utils.helpers: consecutive groups of
\* size elements, the last possibly shorter; no group for an empty sequence.
ToChunks(seq, size) ==
    IF seq = <<>>
    THEN <<>>
    ELSE [j \in 1..((Len(seq) + size - 1) \div size) |->
            SubSeq(seq, (j - 1) * size + 1,
                   IF j * size < Len(seq) THEN j * size ELSE Len(seq))]

\* A chunk size that is not positive is rejected as soon as a group has to
\* be produced.
ChunkSizeInvalid(seq, size) == seq # <<>> /\ size <= 0

\* face_align.norm_crop(orig_image, landmark): the aligned crop, a
\* deterministic function of the image and the landmark.
NormCrop(landmark) == [landmark |-> landmark]

\* The embedding model: one vector per crop, in input order.
EmbeddingOf(crop) == <<3 * crop.landmark[1], 4 * crop.landmark[1]>>
GetEmbedding(crops) == [i \in 1..Len(crops) |-> EmbeddingOf(crops[i])]

\* The attribute model: one (gender, age) pair per crop, in input order; the
\* gender is a number in tenths (14 is 1.4), the age a whole number.
GaOf(crop) == <<10 * ((crop.landmark[2] \div 6) % 2) + 4, 20 + crop.landmark[2]>>
GaGet(crops) == [i \in 1..Len(crops) |-> GaOf(crops[i])]

\* numpy.linalg.norm of a two-component vector (exact on the inputs).
Norm(e) ==
    LET sq == e[1] * e[1] + e[2] * e[2]
    IN  CHOOSE n \in 0..sq : n * n = sq

\* embedding / embedding_norm: component-wise quotients <<num, den>>; a zero
\* denominator stands for numpy's nan, which does not raise.
Quotient(e, n) == [k \in DOMAIN e |-> <<e[k], n>>]

\* int(x) on a number in tenths: truncation towards zero.
PyInt(tenths) == IF tenths >= 0 THEN tenths \div 10 ELSE -((-tenths) \div 10)

\* ---------------------------------------------------------------- Face
\* Lines 17-35: the named tuple and its all-None defaults; the fields the
\* constructor call of line 297 always sets are kept as plain values.
Face(bbox, landmark, det_score, num_det, scale, mask_prob, facedata) ==
    [bbox |-> bbox, landmark |-> landmark, det_score |-> det_score,
     embedding |-> None, gender |-> None, age |-> None,
     embedding_norm |-> None, normed_embedding |-> None,
     facedata |-> facedata, scale |-> scale, num_det |-> num_det,
     mask_prob |-> mask_prob]

\* --------------------------------------------- FaceAnalysis.process_faces
ChunkedFaces_never_empty(faces, max_rec_batch_size) ==
    IF faces = <<>> THEN << <<>> >> ELSE ToChunks(faces, max_rec_batch_size)

\* Line 184.
ChunkedFaces(faces, max_rec_batch_size) == ToChunks(faces, max_rec_batch_size)

\* Lines 187-208: the calls one chunk makes, with the number of crops each.
ChunkCalls(crops, extract_embedding, extract_ga) ==
    (IF extract_embedding THEN <<[model |-> "rec", n |-> Len(crops)]>> ELSE <<>>)
    \o (IF extract_ga THEN <<[model |-> "ga", n |-> Len(crops)]>> ELSE <<>>)

AssembleFace_keep_inverted(face, embedding, ga_i, extract_embedding, extract_ga, return_face_data) ==
    LET embedding_norm == IF extract_embedding THEN Some(Norm(Val(embedding))) ELSE None
        f == IF return_face_data = TRUE THEN [face EXCEPT !.facedata = None] ELSE face
    IN  [f EXCEPT !.embedding = embedding,
                  !.embedding_norm = embedding_norm,
                  !.normed_embedding =
                      IF extract_embedding
                      THEN Some(Quotient(Val(embedding), Val(embedding_norm)))
                      ELSE None,
                  !.gender = IF extract_ga THEN Some(PyInt(ga_i[1])) ELSE None,
                  !.age = IF extract_ga THEN Some(ga_i[2]) ELSE None]

\* Lines 211-236: one record from candidate face, its embedding (None when
\* not extracted) and its (gender, age) pair.
AssembleFace(face, embedding, ga_i, extract_embedding, extract_ga, return_face_data) ==
    LET embedding_norm == IF extract_embedding THEN Some(Norm(Val(embedding))) ELSE None
        f == IF return_face_data = FALSE THEN [face EXCEPT !.facedata = None] ELSE face
    IN  [f EXCEPT !.embedding = embedding,
                  !.embedding_norm = embedding_norm,
                  !.normed_embedding =
                      IF extract_embedding
                      THEN Some(Quotient(Val(embedding), Val(embedding_norm)))
                      ELSE None,
                  !.gender = IF extract_ga THEN Some(PyInt(ga_i[1])) ELSE None,
                  !.age = IF extract_ga THEN Some(ga_i[2]) ELSE None]

MergeChunk_first_result(chunk, embeddings, ga, extract_embedding, extract_ga, return_face_data) ==
    [i \in 1..Len(chunk) |->
        AssembleFace(chunk[i], embeddings[1], ga[1], extract_embedding,
                     extract_ga, return_face_data)]

\* Lines 210-237: the records one chunk yields, merged by position.
MergeChunk(chunk, embeddings, ga, extract_embedding, extract_ga, return_face_data) ==
    [i \in 1..Len(chunk) |->
        AssembleFace(chunk[i], embeddings[i], ga[i], extract_embedding,
                     extract_ga, return_face_data)]

\* Lines 186-237 for one chunk whose backend calls return.
ProcessChunk(chunk, extract_embedding, extract_ga, return_face_data) ==
    LET crops == [i \in 1..Len(chunk) |-> Val(chunk[i].facedata)]
        total == Len(crops)
        embeddings == IF extract_embedding
                      THEN [i \in 1..total |-> Some(GetEmbedding(crops)[i])]
                      ELSE [i \in 1..total |-> None]
        ga == IF extract_ga THEN GaGet(crops) ELSE [i \in 1..total |-> <<None, None>>]
    IN  MergeChunk(chunk, embeddings, ga, extract_embedding, extract_ga,
                   return_face_data)

\* ------------------------------------------------------------------ state
VARIABLES
    init_args,  \* the arguments FaceAnalysis.__init__ was called with
    self,       \* the FaceAnalysis instance: backend_name, max_rec_batch_size,
                \* and masks, the attribute det_model.retina.masks
    task,       \* task[r]: the frame of the r-th coroutine running get
    current     \* the coroutine the event loop is running, 0 when none

vars == <<init_args, self, task, current>>

Runs == 1..NumRuns

Args ==
    [extract_embedding : BOOLEAN, extract_ga : BOOLEAN,
     return_face_data : BOOLEAN, limit_faces : 0..MaxLimit]

\* An image, by what the detector finds in it and by its scale factor.
Images == [rows : Batches, scale_factor : Scales]

NoArgs ==
    [extract_embedding |-> FALSE, extract_ga |-> FALSE,
     return_face_data |-> FALSE, limit_faces |-> 0]

NoImage == [rows |-> <<>>, scale_factor |-> <<1, 1>>]

\* The frame of a call of get at line 251.  Besides the locals of get it
\* records detected (line 266 returned), chunks_done and yielded (the progress
\* of the generator process_faces), calls (the calls made to the embedding
\* and attribute models), err (the exception that left get) and peers (the
\* calls that were suspended at line 272 when this one was resumed).
Frame(pc, args, img) ==
    [pc |-> pc, args |-> args, img |-> img, detected |-> FALSE,
     boxes |-> <<>>, probs |-> <<>>, landmarks |-> <<>>, mask_probs |-> None,
     faces |-> <<>>, chunks_done |-> 0, yielded |-> <<>>, ret |-> None,
     calls |-> <<>>, err |-> "", peers |-> {}]

Instances ==
    {[args |-> [backend_name |-> b, max_rec_batch_size |-> n], masks |-> m] :
        b \in Backends, n \in 0..MaxBatch, m \in BOOLEAN}

InitWith(instances, runs) ==
    /\ \E i \in instances :
        /\ init_args = i.args
        /\ self = [backend_name |->
                       FaceAnalysisInit(i.args.backend_name,
                                        i.args.max_rec_batch_size).backend_name,
                   max_rec_batch_size |->
                       FaceAnalysisInit(i.args.backend_name,
                                        i.args.max_rec_batch_size).max_rec_batch_size,
                   masks |-> i.masks]
    /\ task = [r \in Runs |-> Frame(IF r \in runs THEN "idle" ELSE "off", NoArgs, NoImage)]
    /\ current = 0

\* The states in which a call of get has ended.
Ended == {"done", "failed", "cancelled"}

SetTask(r, t) == task' = [task EXCEPT ![r] = t]

LocalsOf_shared(tk, r) ==
    LET held == {q \in DOMAIN tk : tk[q].pc = "yielded"}
        q == CHOOSE x \in held : \A y \in held : y <= x
    IN  [tk[r] EXCEPT !.boxes = tk[q].boxes, !.probs = tk[q].probs,
                      !.landmarks = tk[q].landmarks,
                      !.mask_probs = tk[q].mask_probs]

\* Lines 266-272: boxes, probs, landmarks and mask_probs are locals of the
\* coroutine; after the await each call reads its own.
LocalsOf(tk, r) == tk[r]

\* Lines 251-272, the detector returning: the image is prepared, the
\* detector runs, and the coroutine suspends at await asyncio.sleep(0).
GetDetect(r, inputs) ==
    /\ current = 0
    /\ task[r].pc = "idle"
    /\ \E in \in inputs, raises \in BOOLEAN :
        LET d == DetectorDetect(in.img.rows, self.masks, raises)
        IN  SetTask(r, [Frame("yielded", in.args, in.img) EXCEPT
                            !.detected = TRUE,
                            !.boxes = d.boxes, !.probs = d.probs,
                            !.landmarks = d.landmarks,
                            !.mask_probs = d.mask_probs])
    /\ UNCHANGED <<init_args, self, current>>

\* Lines 251-266, the detector raising: the exception leaves get.
GetDetectError(r) ==
    /\ current = 0
    /\ task[r].pc = "idle"
    /\ SetTask(r, [Frame("failed", NoArgs, NoImage) EXCEPT
                      !.err = "InferenceBackendError"])
    /\ UNCHANGED <<init_args, self, current>>

\* The host abandons a call suspended at line 272.
Cancel(r) ==
    /\ current = 0
    /\ task[r].pc = "yielded"
    /\ SetTask(r, [task[r] EXCEPT !.pc = "cancelled"])
    /\ UNCHANGED <<init_args, self, current>>

\* Lines 273-283: the event loop resumes the call, which limits the faces.
Select(r) ==
    /\ current = 0
    /\ task[r].pc = "yielded"
    /\ LET t == LocalsOf(task, r)
           max_num == t.args.limit_faces
           area == [i \in 1..Len(t.boxes) |-> Area(t.boxes[i])]
           argsorts == IF max_num > 0 /\ Len(t.boxes) > max_num
                       THEN ArgSorts(area)
                       ELSE {<<>>}
       IN  \E perm \in argsorts :
            LET s == IF max_num > 0
                     THEN SortBoxes(t.boxes, t.probs, t.landmarks, t.mask_probs,
                                    max_num, perm)
                     ELSE Sorted(t.boxes, t.probs, t.landmarks, t.mask_probs)
            IN  IF s.raised # ""
                THEN /\ SetTask(r, [t EXCEPT !.pc = "failed", !.err = s.raised])
                     /\ current' = 0
                ELSE /\ SetTask(r, [t EXCEPT !.pc = "selected",
                                             !.peers = {q \in Runs \ {r} :
                                                          task[q].pc = "yielded"},
                                             !.boxes = s.boxes, !.probs = s.probs,
                                             !.landmarks = s.landmarks,
                                             !.mask_probs = s.mask_probs])
                     /\ current' = r
    /\ UNCHANGED <<init_args, self>>

\* Lines 284-310: one candidate per retained detection.
Crop(r) ==
    /\ current = r
    /\ task[r].pc = "selected"
    /\ LET t == task[r]
           scale_factor == t.img.scale_factor
           n == Len(t.boxes)
           bbox == [i \in 1..n |-> ReprojectPoints(t.boxes[i], scale_factor)]
           landmark == [i \in 1..n |-> ReprojectPoints(t.landmarks[i], scale_factor)]
       IN  SetTask(r, [t EXCEPT
               !.pc = "cropped",
               !.boxes = [i \in 1..n |-> bbox[i].arg],
               !.landmarks = [i \in 1..n |-> landmark[i].arg],
               !.faces = [i \in 1..n |->
                   Face(bbox[i].ret, landmark[i].ret, t.probs[i], i - 1,
                        scale_factor,
                        IF ~IsNone(t.mask_probs)
                        THEN Some(Val(t.mask_probs)[i])
                        ELSE None,
                        Some(NormCrop(landmark[i].ret)))]])
    /\ UNCHANGED <<init_args, self, current>>

\* Lines 185-237 for the next chunk, both backends returning.
ExtractChunk(r) ==
    /\ current = r
    /\ task[r].pc = "cropped"
    /\ LET t == task[r]
           chunked_faces == ChunkedFaces(t.faces, self.max_rec_batch_size)
       IN  /\ ~ChunkSizeInvalid(t.faces, self.max_rec_batch_size)
           /\ t.chunks_done < Len(chunked_faces)
           /\ LET chunk == chunked_faces[t.chunks_done + 1]
              IN  SetTask(r, [t EXCEPT
                      !.chunks_done = @ + 1,
                      !.calls = @ \o ChunkCalls(chunk, t.args.extract_embedding,
                                                t.args.extract_ga),
                      !.yielded = @ \o ProcessChunk(chunk, t.args.extract_embedding,
                                                    t.args.extract_ga,
                                                    t.args.return_face_data)])
    /\ UNCHANGED <<init_args, self, current>>

\* Lines 185-203 for the next chunk, the embedding model (failed = 1) or the
\* attribute model (failed = 2) raising: the exception leaves get.
ExtractChunkError(r) ==
    /\ current = r
    /\ task[r].pc = "cropped"
    /\ LET t == task[r]
           chunked_faces == ChunkedFaces(t.faces, self.max_rec_batch_size)
       IN  /\ ~ChunkSizeInvalid(t.faces, self.max_rec_batch_size)
           /\ t.chunks_done < Len(chunked_faces)
           /\ LET chunk == chunked_faces[t.chunks_done + 1]
                  calls == ChunkCalls(chunk, t.args.extract_embedding,
                                      t.args.extract_ga)
              IN  \E failed \in 1..Len(calls) :
                    SetTask(r, [t EXCEPT !.pc = "failed",
                                         !.err = "InferenceBackendError",
                                         !.calls = @ \o SubSeq(calls, 1, failed)])
    /\ current' = 0
    /\ UNCHANGED <<init_args, self>>

\* Line 185 with a chunk size that is not positive: the chunker raises.
ChunkSizeError(r) ==
    /\ current = r
    /\ task[r].pc = "cropped"
    /\ ChunkSizeInvalid(task[r].faces, self.max_rec_batch_size)
    /\ SetTask(r, [task[r] EXCEPT !.pc = "failed", !.err = "InvalidConfigError"])
    /\ current' = 0
    /\ UNCHANGED <<init_args, self>>

\* Lines 313-324: the generator is exhausted and get returns the records.
Return(r) ==
    /\ current = r
    /\ task[r].pc = "cropped"
    /\ ~ChunkSizeInvalid(task[r].faces, self.max_rec_batch_size)
    /\ task[r].chunks_done = Len(ChunkedFaces(task[r].faces, self.max_rec_batch_size))
    /\ SetTask(r, [task[r] EXCEPT !.pc = "done", !.ret = Some(task[r].yielded)])
    /\ current' = 0
    /\ UNCHANGED <<init_args, self>>

\* The caller has taken the result (or the exception) of an ended call; its
\* frame is dropped and the caller may call get again.
Release(r) ==
    /\ current = 0
    /\ task[r].pc \in Ended
    /\ SetTask(r, Frame("idle", NoArgs, NoImage))
    /\ UNCHANGED <<init_args, self, current>>

\* ------------------------------------------------- one caller, call by call
Inputs == [img : Images, args : Args]

Init == InitWith(Instances, {1})

Next ==
    \/ GetDetect(1, Inputs)
    \/ GetDetectError(1)
    \/ Cancel(1)
    \/ Select(1)
    \/ Crop(1)
    \/ ExtractChunk(1)
    \/ ExtractChunkError(1)
    \/ ChunkSizeError(1)
    \/ Return(1)
    \/ Release(1)

Spec == Init /\ [][Next]_vars

\* ------------------------------------- several callers on one event loop
\* One instance with a batching backend and a mask-capable detector, and
\* three kinds of call: a limited one on three faces (two of equal area), an
\* unlimited one on one face, an unlimited one on two faces at scale 1.
ConcInstances ==
    {i \in Instances : i.args.backend_name = "trt"
                       /\ i.args.max_rec_batch_size = MaxBatch /\ i.masks}

ConcArgs(limit_faces) ==
    [extract_embedding |-> TRUE, extract_ga |-> FALSE,
     return_face_data |-> FALSE, limit_faces |-> limit_faces]

ConcInputs ==
    {[img |-> [rows |-> <<DetA, DetB, DetC>>, scale_factor |-> <<3, 2>>],
      args |-> ConcArgs(2)],
     [img |-> [rows |-> <<DetD>>, scale_factor |-> <<3, 2>>],
      args |-> ConcArgs(0)],
     [img |-> [rows |-> <<DetB, DetA>>, scale_factor |-> <<1, 1>>],
      args |-> ConcArgs(0)]}

InitConc == InitWith(ConcInstances, Runs)

NextConc ==
    \E r \in Runs :
        \/ GetDetect(r, ConcInputs)
        \/ GetDetectError(r)
        \/ Cancel(r)
        \/ Select(r)
        \/ Crop(r)
        \/ ExtractChunk(r)
        \/ ExtractChunkError(r)
        \/ Return(r)
        \/ Release(r)

SpecConc == InitConc /\ [][NextConc]_vars

\* ------------------------------------------------------------ the claims
\* The call of frame t was asked to limit the faces below what was detected.
Truncating(t) ==
    /\ t.detected
    /\ t.args.limit_faces > 0
    /\ Len(t.img.rows) > t.args.limit_faces

\* The call of frame t is past lines 275-283.
PastSelect(t) == t.detected /\ t.pc \in {"selected", "cropped", "done", "failed"}

\* sort_boxes returned to the call of frame t.
Selected(t) == PastSelect(t) /\ t.err # "IndexError"

RowsOf(t) == Range(t.img.rows)
RowOfBox(t, box) == CHOOSE row \in RowsOf(t) : row.box = box
\* The position in the detector's output of the detection with this box.
Position(t, box) == CHOOSE i \in DOMAIN t.img.rows : t.img.rows[i].box = box

\* The boxes sort_boxes returned are detections of the batch, none twice.
DrawnFromBatch(t) ==
    /\ Injective(t.boxes)
    /\ \A box \in Range(t.boxes) : \E row \in RowsOf(t) : row.box = box

\* sort_boxes raises whenever it truncates a batch that has mask_probs.
RaisesOnMasks(t) ==
    (Truncating(t) /\ PastSelect(t) /\ ~IsNone(t.mask_probs))
        => (t.pc = "failed" /\ t.err = "IndexError")

\* C1: a call whose detector found no detection calls neither the embedding
\* model nor the attribute model, does not fail, and returns the empty list,
\* whatever its flags and its limit.
C1_NoDetectionsNoCalls ==
    \A r \in Runs :
        LET t == task[r]
        IN  (t.detected /\ t.img.rows = <<>>)
                => /\ t.calls = <<>>
                   /\ t.pc # "failed"
                   /\ t.pc = "done" => t.ret = Some(<<>>)

C1_Witness ==
    \E r \in Runs :
        LET t == task[r]
        IN  /\ t.pc = "done" /\ t.detected /\ t.img.rows = <<>>
            /\ t.args.extract_embedding /\ t.args.extract_ga
            /\ t.args.limit_faces > 0

\* C2, as amended: when sort_boxes truncates (0 < max_num < N) a batch
\* without mask_probs it returns exactly max_num detections of the batch,
\* none twice, and no detection it drops has a larger area than one it
\* keeps; with mask_probs it raises IndexError.  Which of several detections
\* of equal area at the cut-off is kept is not determined.
C2_TopByArea ==
    \A r \in Runs :
        LET t == task[r]
        IN  /\ RaisesOnMasks(t)
            /\ (Truncating(t) /\ Selected(t))
                => /\ Len(t.boxes) = t.args.limit_faces
                   /\ DrawnFromBatch(t)
                   /\ \A row \in RowsOf(t) :
                        row.box \notin Range(t.boxes)
                            => \A kept \in Range(t.boxes) :
                                    Area(row.box) <= Area(kept)

\* A truncation that had to choose between detections of equal area.
C2_Witness ==
    \E r \in Runs :
        LET t == task[r]
        IN  /\ Truncating(t) /\ t.pc = "selected"
            /\ \E row \in RowsOf(t), kept \in Range(t.boxes) :
                row.box \notin Range(t.boxes) /\ Area(row.box) = Area(kept)

\* C2, as stated: the retained set is the top max_num by area, the earlier
\* detection winning a tie.
C2_Original ==
    \A r \in Runs :
        LET t == task[r]
        IN  (Truncating(t) /\ Selected(t))
                => /\ Len(t.boxes) = t.args.limit_faces
                   /\ DrawnFromBatch(t)
                   /\ \A row \in RowsOf(t) :
                        row.box \notin Range(t.boxes)
                            => \A kept \in Range(t.boxes) :
                                \/ Area(row.box) < Area(kept)
                                \/ /\ Area(row.box) = Area(kept)
                                   /\ Position(t, kept) < Position(t, row.box)

\* The four sequences of frame t are what the detector returned.
Untouched(t) ==
    /\ t.boxes = [i \in DOMAIN t.img.rows |-> t.img.rows[i].box]
    /\ t.probs = [i \in DOMAIN t.img.rows |-> t.img.rows[i].score]
    /\ t.landmarks = [i \in DOMAIN t.img.rows |-> t.img.rows[i].landmark]
    /\ \/ IsNone(t.mask_probs)
       \/ t.mask_probs = Some([i \in DOMAIN t.img.rows |-> t.img.rows[i].mask])

\* C3, as amended: when max_num <= 0 or N <= max_num the batch is returned
\* unchanged; when 0 < max_num < N and there are no mask_probs the retained
\* detections are returned in order of area, largest first, not in detection
\* order; with mask_probs the call raises IndexError.
C3_AreaOrder ==
    \A r \in Runs :
        LET t == task[r]
        IN  /\ RaisesOnMasks(t)
            /\ (PastSelect(t) /\ ~Truncating(t)) => Untouched(t)
            /\ (Truncating(t) /\ Selected(t))
                => /\ DrawnFromBatch(t)
                   /\ \A j, k \in DOMAIN t.boxes :
                        j < k => Area(t.boxes[j]) >= Area(t.boxes[k])

\* A truncation that returns a later detection before an earlier one.
C3_Witness ==
    \E r \in Runs :
        LET t == task[r]
        IN  /\ Truncating(t) /\ t.pc = "selected"
            /\ \E j, k \in DOMAIN t.boxes :
                j < k /\ Position(t, t.boxes[j]) > Position(t, t.boxes[k])

\* C3, as stated: the output is an order-preserving subsequence of the input.
C3_Original ==
    \A r \in Runs :
        LET t == task[r]
        IN  Selected(t)
                => /\ DrawnFromBatch(t)
                   /\ \A j, k \in DOMAIN t.boxes :
                        j < k => Position(t, t.boxes[j]) < Position(t, t.boxes[k])

\* C4: after a truncation the sequences present have length max_num and
\* position j of each is the same detection, with and without mask_probs, so
\* the call does not fail in sort_boxes.
C4_ParallelAfterTruncation ==
    \A r \in Runs :
        LET t == task[r]
        IN  (Truncating(t) /\ PastSelect(t))
                => /\ t.err # "IndexError"
                   /\ Len(t.boxes) = t.args.limit_faces
                   /\ Len(t.probs) = t.args.limit_faces
                   /\ Len(t.landmarks) = t.args.limit_faces
                   /\ ~IsNone(t.mask_probs)
                        => Len(Val(t.mask_probs)) = t.args.limit_faces
                   /\ \A j \in 1..t.args.limit_faces :
                        \E row \in RowsOf(t) :
                            /\ row.box = t.boxes[j]
                            /\ row.score = t.probs[j]
                            /\ row.landmark = t.landmarks[j]
                            /\ ~IsNone(t.mask_probs)
                                => row.mask = Val(t.mask_probs)[j]

Min(a, b) == IF a < b THEN a ELSE b

\* The fields a record takes over from its candidate.
SameDetection(rec, face) ==
    /\ rec.bbox = face.bbox
    /\ rec.landmark = face.landmark
    /\ rec.det_score = face.det_score
    /\ rec.scale = face.scale
    /\ rec.num_det = face.num_det
    /\ rec.mask_prob = face.mask_prob

\* C5: with a batch size k >= 1, process_faces yields one record per
\* candidate, in the order of the candidates, chunk after chunk, and record i
\* carries the embedding and the (gender, age) pair the backends return for
\* the crop of candidate i.
C5_PositionalMerge ==
    \A r \in Runs :
        LET t == task[r]
            k == self.max_rec_batch_size
        IN  (t.pc \in {"cropped", "done"} /\ k >= 1)
                => /\ Len(t.yielded) = Min(t.chunks_done * k, Len(t.faces))
                   /\ t.pc = "done" => /\ t.ret = Some(t.yielded)
                                       /\ Len(t.yielded) = Len(t.faces)
                   /\ \A i \in DOMAIN t.yielded :
                        LET rec == t.yielded[i]
                            crop == Val(t.faces[i].facedata)
                        IN  /\ SameDetection(rec, t.faces[i])
                            /\ rec.num_det = i - 1
                            /\ rec.embedding =
                                   IF t.args.extract_embedding
                                   THEN Some(EmbeddingOf(crop))
                                   ELSE None
                            /\ rec.gender =
                                   IF t.args.extract_ga
                                   THEN Some(PyInt(GaOf(crop)[1]))
                                   ELSE None
                            /\ rec.age =
                                   IF t.args.extract_ga
                                   THEN Some(GaOf(crop)[2])
                                   ELSE None

\* Three candidates in chunks of two, both extractions requested.
C5_Witness ==
    \E r \in Runs :
        LET t == task[r]
        IN  /\ t.pc = "done" /\ Len(Val(t.ret)) = 3
            /\ self.max_rec_batch_size = 2
            /\ t.args.extract_embedding /\ t.args.extract_ga

CallsTo(calls, model) == SelectSeq(calls, LAMBDA c : c.model = model)

\* The calls made to one model: none when not requested, else one per chunk
\* begun, the j-th with the crops of the j-th chunk.
OncePerChunk(t, model, requested, k) ==
    LET made == CallsTo(t.calls, model)
    IN  /\ ~requested => made = <<>>
        /\ (requested /\ t.pc \in {"cropped", "done"}) => Len(made) = t.chunks_done
        /\ t.pc = "done" => t.chunks_done * k >= Len(t.faces)
        /\ \A j \in DOMAIN made :
            /\ made[j].n = Min(k, Len(t.faces) - (j - 1) * k)
            /\ 1 <= made[j].n
            /\ made[j].n <= k

C6_State ==
    /\ self.backend_name = init_args.backend_name
    /\ self.backend_name \notin {"trt", "triton"} => self.max_rec_batch_size = 1
    /\ self.backend_name \in {"trt", "triton"}
        => self.max_rec_batch_size = init_args.max_rec_batch_size
    /\ \A r \in Runs :
        LET t == task[r]
        IN  /\ OncePerChunk(t, "rec", t.args.extract_embedding,
                            self.max_rec_batch_size)
            /\ OncePerChunk(t, "ga", t.args.extract_ga, self.max_rec_batch_size)

\* C6: every call to the embedding or the attribute model carries between 1
\* and max_rec_batch_size crops, each model is called once per chunk when
\* its extraction is requested, and max_rec_batch_size is what the
\* constructor fixed (1 for every backend other than trt and triton) and no
\* step changes it.
C6_BatchSize == []C6_State /\ [][self' = self /\ init_args' = init_args]_vars

\* A backend without batching, configured with a batch size of 2, has served
\* a call with two faces and both extractions.
C6_Witness ==
    \E r \in Runs :
        LET t == task[r]
        IN  /\ t.pc = "done" /\ Len(t.faces) >= 2
            /\ self.backend_name = "mxnet" /\ init_args.max_rec_batch_size = 2
            /\ t.args.extract_embedding /\ t.args.extract_ga
            /\ Len(t.calls) = 2 * Len(t.faces)

\* C7: in every record returned, embedding, embedding_norm and
\* normed_embedding are set iff extract_embedding, gender and age iff
\* extract_ga, facedata iff return_face_data, and bbox, landmark, det_score,
\* scale and num_det are those of the candidate.
C7_OptionalFields ==
    \A r \in Runs :
        LET t == task[r]
        IN  t.pc = "done"
                => /\ Len(Val(t.ret)) = Len(t.faces)
                   /\ \A i \in DOMAIN Val(t.ret) :
                        LET rec == Val(t.ret)[i]
                        IN  /\ ~IsNone(rec.embedding) <=> t.args.extract_embedding
                            /\ ~IsNone(rec.embedding_norm) <=> t.args.extract_embedding
                            /\ ~IsNone(rec.normed_embedding) <=> t.args.extract_embedding
                            /\ ~IsNone(rec.gender) <=> t.args.extract_ga
                            /\ ~IsNone(rec.age) <=> t.args.extract_ga
                            /\ ~IsNone(rec.facedata) <=> t.args.return_face_data
                            /\ SameDetection(rec, t.faces[i])

\* A record with an embedding, without attributes and without its crop.
C7_Witness ==
    \E r \in Runs :
        LET t == task[r]
        IN  /\ t.pc = "done" /\ Len(Val(t.ret)) >= 1
            /\ t.args.extract_embedding /\ ~t.args.extract_ga
            /\ ~t.args.return_face_data

\* What a call returns when it runs alone: a selection of the detections (all
\* of them in detection order, or the limit_faces largest, largest first),
\* each reprojected, cropped, embedded and assembled.
KeptOrders(t) ==
    LET n == Len(t.img.rows)
        limit == t.args.limit_faces
        area(i) == Area(t.img.rows[i].box)
    IN  IF limit > 0 /\ n > limit
        THEN {s \in [1..limit -> 1..n] :
                /\ Injective(s)
                /\ \A j, k \in 1..limit : j < k => area(s[j]) >= area(s[k])
                /\ \A i \in 1..n : i \notin Range(s)
                                    => \A j \in 1..limit : area(i) <= area(s[j])}
        ELSE {[i \in 1..n |-> i]}

SoloRecord(t, row, num_det, with_mask) ==
    LET scale == t.img.scale_factor
        landmark == [k \in 1..2 |-> TrueDiv(row.landmark[k], scale)]
        crop == NormCrop(landmark)
        ee == t.args.extract_embedding
        eg == t.args.extract_ga
    IN  [bbox |-> [k \in 1..4 |-> TrueDiv(row.box[k], scale)],
         landmark |-> landmark,
         det_score |-> row.score,
         embedding |-> IF ee THEN Some(EmbeddingOf(crop)) ELSE None,
         gender |-> IF eg THEN Some(PyInt(GaOf(crop)[1])) ELSE None,
         age |-> IF eg THEN Some(GaOf(crop)[2]) ELSE None,
         embedding_norm |-> IF ee THEN Some(Norm(EmbeddingOf(crop))) ELSE None,
         normed_embedding |->
            IF ee
            THEN Some(Quotient(EmbeddingOf(crop), Norm(EmbeddingOf(crop))))
            ELSE None,
         facedata |-> IF t.args.return_face_data THEN Some(crop) ELSE None,
         scale |-> scale,
         num_det |-> num_det,
         mask_prob |-> IF with_mask THEN Some(row.mask) ELSE None]

SoloResults(t) ==
    {[j \in DOMAIN s |-> SoloRecord(t, t.img.rows[s[j]], j - 1, with_mask)] :
        s \in KeptOrders(t), with_mask \in {m \in BOOLEAN : m => self.masks}}

C8_State ==
    \A r \in Runs : task[r].pc = "done" => Val(task[r].ret) \in SoloResults(task[r])

C8_Step ==
    /\ self' = self
    /\ \A r \in Runs : task[r].pc \in Ended
                        => (task'[r] = task[r] \/ task'[r].pc = "idle")
    /\ \A r, q \in Runs : r # q => (task'[r] = task[r] \/ task'[q] = task[q])

\* C8: with several calls of get interleaved at the suspension point, every
\* call that completes returns what it would return alone; a step changes the
\* frame of one call only, so a call that fails or is abandoned changes no
\* other call, no result already returned and nothing of the instance.
C8_Isolation == []C8_State /\ [][C8_Step]_vars

\* A call completed after being resumed while a call on another image was
\* suspended, and a further call has failed or was abandoned.
C8_Witness ==
    \E r, q \in Runs :
        /\ r # q
        /\ task[r].pc = "done" /\ q \in task[r].peers
        /\ Len(Val(task[r].ret)) >= 1
        /\ task[q].pc \in {"failed", "cancelled"}
        /\ task[q].img # task[r].img

\* C9: reproject_points leaves its argument as it was and returns the
\* argument itself for scale 1, else every coordinate divided by scale; get
\* applies it to the box and the landmark of every retained detection, so
\* bbox and landmark of a record are the detector's values divided by
\* scale_factor.
C9_Reprojected ==
    \A r \in Runs :
        LET t == task[r]
            n == t.img.scale_factor[1]
            d == t.img.scale_factor[2]
        IN  /\ \A i \in DOMAIN t.faces :
                /\ \A k \in 1..4 : t.faces[i].bbox[k] * n = t.boxes[i][k] * d
                /\ \A k \in 1..2 : t.faces[i].landmark[k] * n = t.landmarks[i][k] * d
                /\ t.img.scale_factor = <<1, 1>>
                    => /\ t.faces[i].bbox = t.boxes[i]
                       /\ t.faces[i].landmark = t.landmarks[i]
                /\ \E row \in RowsOf(t) :
                    /\ row.box = t.boxes[i]
                    /\ row.landmark = t.landmarks[i]
                    /\ row.score = t.probs[i]
            /\ t.pc = "done"
                => \A i \in DOMAIN Val(t.ret) :
                    \E row \in RowsOf(t) :
                        /\ row.score = Val(t.ret)[i].det_score
                        /\ \A k \in 1..4 : Val(t.ret)[i].bbox[k] * n = row.box[k] * d
                        /\ \A k \in 1..2 :
                            Val(t.ret)[i].landmark[k] * n = row.landmark[k] * d

\* A record returned for an image that was resized by a factor other than 1.
C9_Witness ==
    \E r \in Runs :
        LET t == task[r]
        IN  /\ t.pc = "done" /\ Len(Val(t.ret)) >= 1
            /\ t.img.scale_factor # <<1, 1>>
            /\ Val(t.ret)[1].bbox # t.boxes[1]

\* C10: on one Detector, mask_probs is present in the result of every call
\* of detect or absent from the result of every call.
C10_MaskPresenceFixed ==
    \A r, q \in Runs :
        (task[r].detected /\ task[q].detected)
            => (IsNone(task[r].mask_probs) <=> IsNone(task[q].mask_probs))

====
